---- MODULE Spec2Model ----
(***************************************************************************)
(* Model of the WS2812B LED chain driver (src/WS2812B.py, class chain).     *)
(*                                                                         *)
(* Python values are modelled as records [kind, v]:                        *)
(*   None            [kind |-> "none",  v |-> <<>>]                        *)
(*   a list          [kind |-> "list",  v |-> <<items>>]                   *)
(*   a tuple         [kind |-> "tuple", v |-> <<items>>]                   *)
(*   an int (as a sequence entry or as the argument of set_seq)            *)
(*                   [kind |-> "int",   v |-> <<n>>]                       *)
(* Python indexes from 0, TLA+ sequences from 1: seq[i] is v[i + 1].       *)
(* An uncaught Python exception ends the call where it is raised; the      *)
(* variable err holds the outcome of the most recent call.                 *)
(* call is the most recent call, nshift the number of shift_buffer calls    *)
(* since the last set_seq, sent what the most recent call handed to         *)
(* rmt.pulses_send (None if nothing), rmt whether the chain holds the RMT   *)
(* channel ("open") or has released it with deinit ("closed").              *)
(***************************************************************************)
EXTENDS Integers, Sequences, FiniteSets, TLC

VARIABLES led_count, gpio_pin, rmt, timing_buffer, seq_buffer, seq_buffer_len,
          shift_pos, call, err, sent, nshift

vars == <<led_count, gpio_pin, rmt, timing_buffer, seq_buffer, seq_buffer_len,
          shift_pos, call, err, sent, nshift>>

(* ---------------- bounds of the model ---------------- *)
MaxLeds == 2
MaxSeqLen == 2
MaxShifts == 5
EncMaxLen == 2

(* ---------------- timing constants ---------------- *)
T0H == 4
T0L == 9
T1H == 8
T1L == 5
TRST == 5000
T0 == <<T0H, T0L>>
T1 == <<T1H, T1L>>

(* RMT(channel=3, ...) *)
RmtChannel == 3
(* the pins a chain is constructed with: the default and another one *)
GpioPins == {"P22", "P9"}

(* ---------------- Python values ---------------- *)
None == [kind |-> "none", v |-> <<>>]
List(items) == [kind |-> "list", v |-> items]
Tuple(items) == [kind |-> "tuple", v |-> items]
PyInt(n) == [kind |-> "int", v |-> <<n>>]

isinstance_list(x) == x.kind = "list"
is_None(x) == x.kind = "none"

(* a & b for non-negative integers *)
RECURSIVE BitAnd(_, _)
BitAnd(a, b) ==
    IF a = 0 \/ b = 0 THEN 0
    ELSE (IF a % 2 = 1 /\ b % 2 = 1 THEN 1 ELSE 0) + 2 * BitAnd(a \div 2, b \div 2)

(* 1 << j *)
RECURSIVE Shl1(_)
Shl1(j) == IF j = 0 THEN 1 ELSE 2 * Shl1(j - 1)

(* ---------------- convert_step ---------------- *)
(* one iteration of "for j in range(7,-1,-1)": the pair appended for bit j *)
bit_timing_mut_inverted(value, j) == IF BitAnd(value, Shl1(j)) /= 0 THEN T0 ELSE T1
bit_timing(value, j) == IF BitAnd(value, Shl1(j)) /= 0 THEN T1 ELSE T0

(* the loop over the 8 bits of one channel, MSB first, from bit j down to 0 *)
RECURSIVE channel_timing(_, _)
channel_timing(value, j) ==
    IF j < 0 THEN <<>>
    ELSE bit_timing(value, j) \o channel_timing(value, j - 1)

(* convert_step(led): the timing list, or the exception raised by indexing *)
convert_step_mut_rgb(led) ==
    IF led.kind = "int" THEN [err |-> "TypeError", timing |-> <<>>]
    ELSE IF Len(led.v) < 3 THEN [err |-> "IndexError", timing |-> <<>>]
    ELSE [err |-> "ok",
          timing |-> channel_timing(led.v[1], 7)
                     \o channel_timing(led.v[2], 7)
                     \o channel_timing(led.v[3], 7)]
convert_step(led) ==
    IF led.kind = "int" THEN [err |-> "TypeError", timing |-> <<>>]
    ELSE IF Len(led.v) < 3 THEN [err |-> "IndexError", timing |-> <<>>]
    ELSE [err |-> "ok",
          timing |-> channel_timing(led.v[2], 7)
                     \o channel_timing(led.v[1], 7)
                     \o channel_timing(led.v[3], 7)]

(* ---------------- inputs ---------------- *)
(* entries a caller may put into a sequence: two colours, a list with too   *)
(* few and one with too many channels, and an entry that is not a list      *)
Colors == {List(<<255, 0, 0>>), List(<<0, 255, 0>>)}
Malformed == {List(<<1, 2>>), List(<<0, 0, 255, 7>>), PyInt(5)}
Entries == Colors \cup Malformed

ListsOf(S, maxlen) == UNION {[1..n -> S] : n \in 0..maxlen}

(* arguments of set_seq: the lists of at most MaxSeqLen entries of which at  *)
(* most one is malformed, and one argument that is no list                   *)
SeqArgs ==
    {List(items) : items \in
        {l \in ListsOf(Entries, MaxSeqLen) :
            Cardinality({i \in DOMAIN l : l[i] \in Malformed}) <= 1}}
    \cup {None}

(* colours exercising every bit of every channel *)
EncColors ==
    {List(c) : c \in {<<0, 0, 0>>, <<255, 255, 255>>, <<255, 0, 0>>, <<0, 255, 0>>,
                      <<0, 0, 255>>, <<1, 0, 0>>, <<0, 1, 0>>, <<0, 0, 1>>,
                      <<128, 0, 0>>, <<0, 128, 0>>, <<0, 0, 128>>, <<170, 85, 15>>,
                      <<85, 240, 170>>, <<1, 2, 4>>, <<8, 16, 32>>, <<64, 127, 254>>}}
EncSeqArgs == {List(items) : items \in ListsOf(EncColors, EncMaxLen) \ {<<>>}}

(* convert_step(led) for every entry of the model, evaluated once *)
encoded == [led \in Entries \cup EncColors |-> convert_step(led)]

(* ---------------- convert_seq ---------------- *)
(* the index "i % seq_len" of the loop body *)
seq_index_mut_off(i, seq_len) == (i + 1) % seq_len
seq_index(i, seq_len) == i % seq_len

(* the loop "for i in range(0, led_count)" from iteration i on, timing so far *)
RECURSIVE convert_seq_loop(_, _, _, _)
convert_seq_loop(seq, n, i, timing) ==
    IF i >= n THEN [err |-> "ok", timing |-> timing]
    ELSE IF Len(seq) = 0 THEN [err |-> "ZeroDivisionError", timing |-> timing]
    ELSE LET led == seq[seq_index(i, Len(seq)) + 1]
         IN  IF ~isinstance_list(led)
             THEN [err |-> "TypeError", timing |-> timing]  \* len(led) of an int
             ELSE LET r == encoded[led]
                  IN  IF r.err /= "ok" THEN [err |-> r.err, timing |-> timing]
                      ELSE convert_seq_loop(seq, n, i + 1, timing \o r.timing)

convert_seq(seq, n) == convert_seq_loop(seq, n, 0, <<>>)

(* ---------------- chain.__init__ ---------------- *)
Init ==
    /\ led_count \in 1..MaxLeds
    /\ gpio_pin \in GpioPins
    /\ rmt = "open"
    /\ timing_buffer = None
    /\ seq_buffer = None
    /\ seq_buffer_len = 0
    /\ shift_pos = 0
    /\ call = [op |-> "init", is_list |-> FALSE]
    /\ err = "ok"
    /\ sent = None
    /\ nshift = 0

InitEnc ==
    /\ led_count \in 1..EncMaxLen
    /\ gpio_pin = "P22"
    /\ rmt = "open"
    /\ timing_buffer = None
    /\ seq_buffer = None
    /\ seq_buffer_len = 0
    /\ shift_pos = 0
    /\ call = [op |-> "init", is_list |-> FALSE]
    /\ err = "ok"
    /\ sent = None
    /\ nshift = 0

(* ---------------- chain.set_seq ---------------- *)
(* the else branch: what becomes of timing_buffer on a non-list argument *)
cleared_timing_mut_keep(tb) == tb
cleared_timing(tb) == None

(* set_seq without "self.shift_pos = 0" in the list branch *)
set_seq_mut_keep_pos(led_seq) ==
    /\ IF isinstance_list(led_seq)
       THEN LET r == convert_seq(led_seq.v, led_count)
            IN  /\ seq_buffer' = led_seq
                /\ shift_pos' = shift_pos
                /\ seq_buffer_len' = Len(led_seq.v)
                /\ timing_buffer' = IF r.err = "ok" THEN Tuple(r.timing)
                                                    ELSE timing_buffer
                /\ err' = r.err
       ELSE /\ seq_buffer' = None
            /\ timing_buffer' = cleared_timing(timing_buffer)
            /\ shift_pos' = 0
            /\ seq_buffer_len' = 0
            /\ err' = "ok"
    /\ call' = [op |-> "set_seq", is_list |-> isinstance_list(led_seq)]
    /\ sent' = None
    /\ nshift' = 0
    /\ UNCHANGED <<led_count, gpio_pin, rmt>>

set_seq(led_seq) ==
    /\ IF isinstance_list(led_seq)
       THEN LET r == convert_seq(led_seq.v, led_count)
            IN  /\ seq_buffer' = led_seq
                /\ shift_pos' = 0
                /\ seq_buffer_len' = Len(led_seq.v)
                /\ timing_buffer' = IF r.err = "ok" THEN Tuple(r.timing)
                                                    ELSE timing_buffer
                /\ err' = r.err
       ELSE /\ seq_buffer' = None
            /\ timing_buffer' = cleared_timing(timing_buffer)
            /\ shift_pos' = 0
            /\ seq_buffer_len' = 0
            /\ err' = "ok"
    /\ call' = [op |-> "set_seq", is_list |-> isinstance_list(led_seq)]
    /\ sent' = None
    /\ nshift' = 0
    /\ UNCHANGED <<led_count, gpio_pin, rmt>>

SetSeq == \E led_seq \in SeqArgs : set_seq(led_seq)

(* ---------------- chain.shift_buffer ---------------- *)
(* "increment shift pos and reset if at end" *)
next_shift_pos_mut_late(pos, len) == IF pos + 1 > len THEN 0 ELSE pos + 1
next_shift_pos(pos, len) == IF pos + 1 >= len THEN 0 ELSE pos + 1

(* self.timing_buffer[48:] + tuple(step) *)
shifted_timing_mut_47(tb, step) ==
    (IF Len(tb) <= 47 THEN <<>> ELSE SubSeq(tb, 48, Len(tb))) \o step
(* the new step put in front and the last 48 values cut off *)
shifted_timing_mut_back(tb, step) ==
    step \o (IF Len(tb) <= 48 THEN <<>> ELSE SubSeq(tb, 1, Len(tb) - 48))
shifted_timing(tb, step) ==
    (IF Len(tb) <= 48 THEN <<>> ELSE SubSeq(tb, 49, Len(tb))) \o step

(* shift_buffer with the increment of shift_pos outside the guard *)
shift_buffer_mut_unguarded ==
    /\ nshift < MaxShifts
    /\ LET pos == next_shift_pos(shift_pos, seq_buffer_len)
       IN  /\ shift_pos' = pos
           /\ IF is_None(timing_buffer)
              THEN err' = "ok" /\ UNCHANGED timing_buffer
              ELSE IF ~isinstance_list(seq_buffer)
              THEN err' = "TypeError" /\ UNCHANGED timing_buffer
              ELSE IF pos >= Len(seq_buffer.v)
              THEN err' = "IndexError" /\ UNCHANGED timing_buffer
              ELSE LET r == encoded[seq_buffer.v[pos + 1]]
                   IN  /\ err' = r.err
                       /\ timing_buffer' =
                             IF r.err = "ok"
                             THEN Tuple(shifted_timing(timing_buffer.v, r.timing))
                             ELSE timing_buffer
    /\ call' = [op |-> "shift_buffer", is_list |-> FALSE]
    /\ sent' = None
    /\ nshift' = nshift + 1
    /\ UNCHANGED <<led_count, gpio_pin, rmt, seq_buffer, seq_buffer_len>>

shift_buffer ==
    /\ nshift < MaxShifts
    /\ IF ~is_None(timing_buffer)
       THEN LET pos == next_shift_pos(shift_pos, seq_buffer_len)
            IN  /\ shift_pos' = pos
                /\ IF ~isinstance_list(seq_buffer)
                   THEN err' = "TypeError" /\ UNCHANGED timing_buffer
                   ELSE IF pos >= Len(seq_buffer.v)
                   THEN err' = "IndexError" /\ UNCHANGED timing_buffer
                   ELSE LET r == encoded[seq_buffer.v[pos + 1]]
                        IN  /\ err' = r.err
                            /\ timing_buffer' =
                                  IF r.err = "ok"
                                  THEN Tuple(shifted_timing(timing_buffer.v, r.timing))
                                  ELSE timing_buffer
       ELSE /\ err' = "ok"
            /\ UNCHANGED <<shift_pos, timing_buffer>>
    /\ call' = [op |-> "shift_buffer", is_list |-> FALSE]
    /\ sent' = None
    /\ nshift' = nshift + 1
    /\ UNCHANGED <<led_count, gpio_pin, rmt, seq_buffer, seq_buffer_len>>

(* ---------------- chain.output_buffer ---------------- *)
(* ok = FALSE: rmt.pulses_send raises, so rmt.deinit() is not reached *)
(* output_buffer constructing the RMT with the default pin *)
output_buffer_mut_pin(ok) ==
    /\ IF ~is_None(timing_buffer)
       THEN /\ sent' = [kind |-> "pulses", v |-> timing_buffer.v \o <<TRST>>,
                         channel |-> RmtChannel, gpio |-> "P22",
                         start_level |-> "HIGH"]
            /\ rmt' = IF ok THEN "closed" ELSE "open"
            /\ err' = IF ok THEN "ok" ELSE "PeripheralError"
       ELSE /\ ok
            /\ sent' = None
            /\ err' = "ok"
            /\ UNCHANGED rmt
    /\ call' = [op |-> "output_buffer", is_list |-> FALSE]
    /\ UNCHANGED <<led_count, gpio_pin, timing_buffer, seq_buffer, seq_buffer_len,
                   shift_pos, nshift>>

(* output_buffer keeping timing_complete as the timing buffer *)
output_buffer_mut_store(ok) ==
    /\ IF ~is_None(timing_buffer)
       THEN /\ sent' = [kind |-> "pulses", v |-> timing_buffer.v \o <<TRST>>,
                         channel |-> RmtChannel, gpio |-> gpio_pin,
                         start_level |-> "HIGH"]
            /\ timing_buffer' = Tuple(timing_buffer.v \o <<TRST>>)
            /\ rmt' = IF ok THEN "closed" ELSE "open"
            /\ err' = IF ok THEN "ok" ELSE "PeripheralError"
       ELSE /\ ok
            /\ sent' = None
            /\ err' = "ok"
            /\ UNCHANGED <<rmt, timing_buffer>>
    /\ call' = [op |-> "output_buffer", is_list |-> FALSE]
    /\ UNCHANGED <<led_count, gpio_pin, seq_buffer, seq_buffer_len,
                   shift_pos, nshift>>

output_buffer(ok) ==
    /\ IF ~is_None(timing_buffer)
       THEN /\ sent' = [kind |-> "pulses", v |-> timing_buffer.v \o <<TRST>>,
                         channel |-> RmtChannel, gpio |-> gpio_pin,
                         start_level |-> "HIGH"]
            /\ rmt' = IF ok THEN "closed" ELSE "open"
            /\ err' = IF ok THEN "ok" ELSE "PeripheralError"
       ELSE /\ ok
            /\ sent' = None
            /\ err' = "ok"
            /\ UNCHANGED rmt
    /\ call' = [op |-> "output_buffer", is_list |-> FALSE]
    /\ UNCHANGED <<led_count, gpio_pin, timing_buffer, seq_buffer, seq_buffer_len,
                   shift_pos, nshift>>

OutputBuffer == \E ok \in BOOLEAN : output_buffer(ok)

(* ---------------- specifications ---------------- *)
Next == SetSeq \/ shift_buffer \/ OutputBuffer

Spec == Init /\ [][Next]_vars

(* one caller: set a sequence of colours once, then shift *)
EncSetSeq == call.op = "init" /\ \E led_seq \in EncSeqArgs : set_seq(led_seq)

NextEnc == EncSetSeq \/ shift_buffer

SpecEnc == InitEnc /\ [][NextEnc]_vars

(* ======================= properties ======================= *)
present == ~is_None(timing_buffer)

(* the 48 values of LED position i (from 0) of a buffer *)
Slot(tb, i) == SubSeq(tb, 48 * i + 1, 48 * i + 48)

(* a colour: a list of exactly three 8-bit channels *)
IsColor(led) ==
    /\ isinstance_list(led)
    /\ Len(led.v) = 3
    /\ \A c \in 1..3 : led.v[c] \in 0..255

(* a valid sequence: a non-empty list of colours *)
ValidSeq(s) ==
    /\ isinstance_list(s)
    /\ Len(s.v) > 0
    /\ \A k \in 1..Len(s.v) : IsColor(s.v[k])

(* C1: periodicity law. After a valid sequence of length L > 0 was set and
   shift_buffer was called exactly L times, the timing buffer is again the
   one that set_seq built from the sequence. *)
C1_Periodicity ==
    (ValidSeq(seq_buffer) /\ present /\ nshift = seq_buffer_len)
        => timing_buffer.v = convert_seq(seq_buffer.v, led_count).timing

(* C2: scrolling. After k calls of shift_buffer following set_seq with a
   valid sequence of length L > 0, LED position i of the timing buffer holds
   the encoding of sequence[(i + k) mod L], for every i < led_count. *)
C2_Scrolling ==
    (ValidSeq(seq_buffer) /\ present)
        => \A i \in 0..(led_count - 1) :
              Slot(timing_buffer.v, i)
                 = convert_step(seq_buffer.v[((i + nshift) % seq_buffer_len) + 1]).timing

(* C3: buffer length invariant. A timing buffer that is present and not
   empty has exactly led_count * 48 values, whatever calls were made. *)
C3_BufferLength ==
    (present /\ Len(timing_buffer.v) > 0) => Len(timing_buffer.v) = led_count * 48

C3_Witness ==
    /\ call.op = "shift_buffer" /\ err = "ok" /\ present
    /\ nshift >= 2 /\ led_count >= 2
    /\ Len(timing_buffer.v) = led_count * 48

(* C4: shift_pos range. Whenever the stored sequence has length L > 0,
   0 <= shift_pos < L; and a shift_buffer call that finds a timing buffer
   moves shift_pos to (shift_pos + 1) mod L, that is one further, back to 0
   when it reaches L. *)
C4_ShiftPosRange ==
    /\ [] (seq_buffer_len > 0 => (0 <= shift_pos /\ shift_pos < seq_buffer_len))
    /\ [][ (nshift' = nshift + 1 /\ present /\ seq_buffer_len > 0)
              => shift_pos' = (shift_pos + 1) % seq_buffer_len ]_vars

C4_Witness ==
    /\ call.op = "shift_buffer" /\ present
    /\ seq_buffer_len >= 2 /\ nshift = seq_buffer_len /\ shift_pos = 0

(* C5: build with cyclic reuse. After a set_seq that built the buffer from a
   list of length L > 0, the 48 values of every LED position i < led_count
   are the encoding of sequence[i mod L], in LED order. *)
C5_CyclicBuild ==
    (call.op = "set_seq" /\ call.is_list /\ err = "ok" /\ seq_buffer_len > 0)
        => /\ present
           /\ Len(timing_buffer.v) = led_count * 48
           /\ \A i \in 0..(led_count - 1) :
                 Slot(timing_buffer.v, i)
                    = convert_step(seq_buffer.v[(i % seq_buffer_len) + 1]).timing

(* a sequence shorter than the chain was built: its one entry is reused *)
C5_Witness ==
    /\ call.op = "set_seq" /\ call.is_list /\ err = "ok" /\ present
    /\ seq_buffer_len = 1 /\ led_count = 2
    /\ Slot(timing_buffer.v, 1) = convert_step(seq_buffer.v[1]).timing

(* bit j of an 8-bit value, by division *)
RECURSIVE Pow2(_)
Pow2(j) == IF j = 0 THEN 1 ELSE 2 * Pow2(j - 1)
BitOf(value, j) == (value \div Pow2(j)) % 2

(* channel number c (0, 1, 2) of a colour in transmission order G, R, B *)
ChannelGRB(led, c) == IF c = 0 THEN led.v[2] ELSE IF c = 1 THEN led.v[1] ELSE led.v[3]

(* slot is the 48 values of colour led: 24 pairs, pair k (from 0) is bit
   7 - (k mod 8) of channel k div 8 in the order G, R, B *)
EncodedAs(slot, led) ==
    /\ Len(slot) = 48
    /\ \A k \in 0..23 :
          <<slot[2 * k + 1], slot[2 * k + 2]>>
             = IF BitOf(ChannelGRB(led, k \div 8), 7 - (k % 8)) = 1
               THEN <<T1H, T1L>> ELSE <<T0H, T0L>>

(* C6: bit encoder. The encoding of a colour with 8-bit channels is 48
   values, 24 (high, low) pairs in the order green 7..0, red 7..0, blue 7..0,
   a 1 bit as (T1H, T1L) and a 0 bit as (T0H, T0L): every LED position of a
   buffer just built holds such an encoding of its colour, and so does the
   position appended by a shift. *)
C6_BitEncoder ==
    present =>
        /\ nshift = 0 =>
              \A i \in 0..(led_count - 1) :
                 EncodedAs(Slot(timing_buffer.v, i),
                           seq_buffer.v[(i % seq_buffer_len) + 1])
        /\ nshift > 0 =>
              EncodedAs(Slot(timing_buffer.v, led_count - 1),
                        seq_buffer.v[shift_pos + 1])

(* a colour with a different bit pattern in each channel was encoded *)
C6_Witness ==
    /\ present /\ nshift = 0
    /\ seq_buffer.v[1] = List(<<170, 85, 15>>)
    /\ Slot(timing_buffer.v, 0)[1] = T0H
    /\ Slot(timing_buffer.v, 0)[17] = T1H

(* the bit of one (high, low) pair; 2 for a pair that is neither T0 nor T1 *)
DecodePair(h, l) ==
    IF <<h, l>> = <<T1H, T1L>> THEN 1 ELSE IF <<h, l>> = <<T0H, T0L>> THEN 0 ELSE 2

(* the byte of pairs 8c .. 8c+7 of a slot, MSB first *)
RECURSIVE DecodeByte(_, _, _)
DecodeByte(slot, c, k) ==
    IF k > 7 THEN 0
    ELSE DecodePair(slot[2 * (8 * c + k) + 1], slot[2 * (8 * c + k) + 2]) * Pow2(7 - k)
         + DecodeByte(slot, c, k + 1)

(* the colour <<r, g, b>> of a slot sent in the order G, R, B *)
DecodeLed(slot) == <<DecodeByte(slot, 1, 0), DecodeByte(slot, 0, 0), DecodeByte(slot, 2, 0)>>

(* C7: round trip. With led_count equal to the sequence length L > 0 and
   8-bit channels, decoding the built buffer pair by pair in the order G, R,
   B, MSB first, gives back the list of colours that was set. *)
C7_RoundTrip ==
    (present /\ nshift = 0 /\ led_count = seq_buffer_len)
        => /\ Len(timing_buffer.v) = 48 * seq_buffer_len
           /\ \A i \in 0..(led_count - 1) :
                 DecodeLed(Slot(timing_buffer.v, i)) = seq_buffer.v[i + 1].v

C7_Witness ==
    /\ present /\ nshift = 0 /\ led_count = 2 /\ seq_buffer_len = 2
    /\ seq_buffer.v[1] = List(<<64, 127, 254>>)
    /\ seq_buffer.v[2] = List(<<1, 2, 4>>)
    /\ DecodeLed(Slot(timing_buffer.v, 1)) = <<1, 2, 4>>

(* C8: set_seq with an argument that is no list, in any state, leaves the
   chain without sequence and without timing buffer, shift_pos = 0 and the
   stored length 0. *)
C8_NonListClears ==
    (call.op = "set_seq" /\ ~call.is_list)
        => /\ is_None(seq_buffer)
           /\ is_None(timing_buffer)
           /\ shift_pos = 0
           /\ seq_buffer_len = 0

(* the non-list call came after a transmission, so a buffer was there *)
C8_Witness ==
    /\ call.op = "set_seq" /\ ~call.is_list
    /\ rmt = "closed"
    /\ is_None(timing_buffer) /\ is_None(seq_buffer)

(* C9: empty sequence. set_seq with an empty list on a chain with
   led_count > 0 ends in a reported EmptySequence failure and leaves no
   timing buffer; it does not run into a modulo by zero. *)
C9_EmptySequence ==
    (call.op = "set_seq" /\ call.is_list /\ seq_buffer_len = 0)
        => (err = "EmptySequence" /\ is_None(timing_buffer))

(* C10: timing buffer validity. Whenever the timing buffer is present the
   stored sequence is a non-empty valid list and every LED position of the
   buffer is the encoding of one of its colours; after a set_seq that did
   not succeed there is no timing buffer. *)
C10_BufferValidity ==
    /\ present =>
          /\ ValidSeq(seq_buffer)
          /\ \A i \in 0..(led_count - 1) :
                \E k \in 1..Len(seq_buffer.v) :
                   Slot(timing_buffer.v, i) = convert_step(seq_buffer.v[k]).timing
    /\ (call.op = "set_seq" /\ (~call.is_list \/ err /= "ok"))
          => (is_None(timing_buffer) /\ shift_pos = 0)

(* C11: shift atomicity. After every call of shift_buffer, whether it
   returned or raised, either shift_pos and the timing buffer were both
   updated for the same step or neither has changed: a call that fails
   leaves both as they were, a call on a present buffer that returns has
   appended the encoding of the entry at the new shift_pos. *)
C11_ShiftAtomic ==
    [][ nshift' = nshift + 1
          => \/ /\ err' = "ok"
                /\ present =>
                      Slot(timing_buffer'.v, led_count - 1)
                         = convert_step(seq_buffer.v[shift_pos' + 1]).timing
             \/ /\ err' /= "ok"
                /\ shift_pos' = shift_pos
                /\ timing_buffer' = timing_buffer ]_vars

IsMalformed(led) == ~(isinstance_list(led) /\ Len(led.v) = 3)

(* C13: malformed colour entry policy. After set_seq with a list that
   contains an entry that is not a list of exactly 3 channel values, either
   the whole sequence was rejected (no timing buffer) or the bad entry was
   skipped (every LED position of the buffer is the encoding of a
   well-formed entry of the list); the bad entry is never encoded. *)
C13_MalformedPolicy ==
    (/\ call.op = "set_seq" /\ call.is_list
     /\ \E k \in 1..Len(seq_buffer.v) : IsMalformed(seq_buffer.v[k]))
        => \/ ~present
           \/ /\ err = "ok"
              /\ \A i \in 0..(led_count - 1) :
                    \E k \in 1..Len(seq_buffer.v) :
                       /\ ~IsMalformed(seq_buffer.v[k])
                       /\ Slot(timing_buffer.v, i)
                             = convert_step(seq_buffer.v[k]).timing

(* what a chain with n LEDs and no history builds from the list seq: the
   encodings of seq[0 mod L], seq[1 mod L], ..., seq[(n - 1) mod L] *)
RECURSIVE FreshBuild(_, _)
FreshBuild(seq, n) ==
    IF n = 0 THEN <<>>
    ELSE FreshBuild(seq, n - 1) \o convert_step(seq[((n - 1) % Len(seq)) + 1]).timing

(* C14: a successful set_seq replaces all prior state. In whatever state it
   is called, after it returned normally the stored sequence is its
   argument, shift_pos = 0 and the timing buffer is the one a newly
   constructed chain with the same led_count builds from that argument. *)
C14_FullReplace ==
    (call.op = "set_seq" /\ call.is_list /\ err = "ok")
        => /\ shift_pos = 0
           /\ seq_buffer_len = Len(seq_buffer.v)
           /\ present
           /\ timing_buffer.v = FreshBuild(seq_buffer.v, led_count)

(* a set_seq on a chain that had transmitted a buffer before, hence had a
   sequence and a buffer to replace *)
C14_Witness ==
    /\ call.op = "set_seq" /\ call.is_list /\ err = "ok"
    /\ rmt = "closed" /\ led_count = 2 /\ seq_buffer_len = 2
    /\ shift_pos = 0
    /\ timing_buffer.v = FreshBuild(seq_buffer.v, led_count)

(* C15: single shift step. A shift_buffer call on a present timing buffer
   with L > 0 moves shift_pos to (shift_pos + 1) mod L, keeps the old
   values at offsets [48, N*48) in order as the first (N-1)*48 values,
   appends the encoding of sequence[new shift_pos] as the last 48 values
   and leaves the sequence unchanged. *)
C15_ShiftStep ==
    [][ (nshift' = nshift + 1 /\ present /\ seq_buffer_len > 0)
          => /\ shift_pos' = (shift_pos + 1) % seq_buffer_len
             /\ Len(timing_buffer'.v) = led_count * 48
             /\ SubSeq(timing_buffer'.v, 1, (led_count - 1) * 48)
                   = SubSeq(timing_buffer.v, 49, led_count * 48)
             /\ Slot(timing_buffer'.v, led_count - 1)
                   = convert_step(seq_buffer.v[shift_pos' + 1]).timing
             /\ seq_buffer' = seq_buffer ]_vars

(* C16: transmit. output_buffer on a present timing buffer hands the
   peripheral the timing buffer followed by one TRST value, led_count*48 + 1
   values, with start level high, on channel 3 and the chain's pin, on every
   call; and it leaves sequence, stored length, shift_pos and timing buffer
   unchanged, so the TRST value is never stored. *)
C16_Transmit ==
    /\ [] ((call.op = "output_buffer" /\ present)
             => /\ sent.kind = "pulses"
                /\ sent.v = timing_buffer.v \o <<TRST>>
                /\ Len(sent.v) = led_count * 48 + 1
                /\ sent.start_level = "HIGH"
                /\ sent.channel = RmtChannel
                /\ sent.gpio = gpio_pin)
    /\ [][ call'.op = "output_buffer"
             => UNCHANGED <<seq_buffer, seq_buffer_len, shift_pos,
                            timing_buffer>> ]_vars

(* a transmission after shifts, on the pin that is not the default *)
C16_Witness ==
    /\ call.op = "output_buffer" /\ present /\ nshift >= 2
    /\ gpio_pin = "P9" /\ sent.gpio = "P9"
    /\ Len(sent.v) = 97 /\ sent.v[97] = TRST

(* C17: scoped peripheral handle. The chain holds the RMT channel only
   while output_buffer runs: in every state between calls (after
   construction, between frames, after a transmit that failed) the channel
   is released. *)
C17_ScopedHandle == rmt = "closed"

(* C18: steady-state periodicity. For a valid sequence of length L > 0,
   after k shift_buffer calls since set_seq shift_pos is k mod L, and once
   k >= led_count = N the LED position i of the timing buffer holds the
   encoding of sequence[(k - N + 1 + i) mod L]: the buffer depends on k
   only through k mod L, so the buffer after k + L shifts is the buffer
   after k shifts. *)
C18_SteadyPeriodic ==
    (ValidSeq(seq_buffer) /\ present)
        => /\ shift_pos = nshift % seq_buffer_len
           /\ nshift >= led_count =>
                 \A i \in 0..(led_count - 1) :
                    Slot(timing_buffer.v, i)
                       = convert_step(
                            seq_buffer.v[((nshift - led_count + 1 + i)
                                            % seq_buffer_len) + 1]).timing

(* N + L shifts were made on two LEDs with a sequence of two colours: the
   states after N and after N + L shifts are both reached *)
C18_Witness ==
    /\ ValidSeq(seq_buffer) /\ present
    /\ led_count = 2 /\ seq_buffer_len = 2
    /\ seq_buffer.v[1] /= seq_buffer.v[2]
    /\ nshift = led_count + seq_buffer_len
    /\ Slot(timing_buffer.v, 0) /= Slot(timing_buffer.v, 1)

(* C19: buffer well-formedness. A present timing buffer is a concatenation
   of (high, low) pairs, each (T0H, T0L) or (T1H, T1L): no other value, in
   particular no TRST, and no mismatched pair, after any calls. *)
C19_WellFormed ==
    present =>
        /\ Len(timing_buffer.v) % 2 = 0
        /\ \A k \in 1..(Len(timing_buffer.v) \div 2) :
              <<timing_buffer.v[2 * k - 1], timing_buffer.v[2 * k]>>
                 \in {<<T0H, T0L>>, <<T1H, T1L>>}

(* a buffer that was built, shifted and transmitted *)
C19_Witness ==
    /\ present /\ call.op = "output_buffer" /\ nshift >= 1
    /\ sent.kind = "pulses" /\ rmt = "closed"
    /\ timing_buffer.v[1] = T1H /\ timing_buffer.v[17] = T0H

====
